---- MODULE Spec2Model ----
(***************************************************************************)
(* A model of regressions.py: the regression harness of LukaBinary.        *)
(* main() discovers the numbered case directories of REGRESSION_PATH,      *)
(* stages each one under REGRESSION_RESULTS_PATH, runs the subject binary  *)
(* in the staged copy, compares output.log and regression/* with the       *)
(* references and writes test_result.txt and test_diffs.log.               *)
(*                                                                         *)
(* Representation.  A file or directory name is a sequence of one-         *)
(* character strings; "sup2" stands for U+00B2 (a character for which      *)
(* str.isdigit() is true and int() raises ValueError); a file's content is *)
(* a sequence of bytes written as one-character strings, "LF" and "CR" for *)
(* the two line ends and "xFF" for a byte that is no UTF-8.  An optional   *)
(* value is the empty sequence (absent) or a one-element sequence.         *)
(***************************************************************************)
EXTENDS Integers, Sequences, FiniteSets, TLC

VARIABLES
    fs,               \* the two directories: fs.source and fs.results (listings)
    regression_path,  \* REGRESSION_PATH: the directory the cases are read from
    results_path,     \* REGRESSION_RESULTS_PATH: the results root
    binary,           \* the subject binary, a deterministic program
    pc,               \* position of main(): open, discover, stage, run, compare,
                      \*   close, done, aborted (uncaught exception), killed
    err,              \* the exception that aborted the run, "" if none
    dirs,             \* main's local `dirs`
    i,                \* number of cases the for loop has finished
    res_file,         \* test_result.txt: [buf, disk]
    diff_file,        \* test_diffs.log:  [buf, disk]
    run,              \* which run of the harness this is (1, 2, ...)
    prev,             \* history: test_result.txt as the previous run left it
    src0              \* history: the source directory as it was at the start

vars == <<fs, regression_path, results_path, binary, pc, err, dirs, i,
          res_file, diff_file, run, prev, src0>>

\* Bounds of the model.
MaxEntries == 2
MaxRuns == 2

---------------------------------------------------------------------------
\* Characters and names

DigitChars == <<"0", "1", "2", "3", "4", "5", "6", "7", "8", "9">>

LowerChars == <<"a", "b", "c", "d", "e", "f", "g", "h", "i", "j", "k", "l", "m",
                "n", "o", "p", "q", "r", "s", "t", "u", "v", "w", "x", "y", "z">>

IsAsciiDigit(c) == \E k \in 1..Len(DigitChars) : DigitChars[k] = c

\* The code point of a character (Python compares strings by code point).
Ord(c) ==
    IF IsAsciiDigit(c) THEN 47 + (CHOOSE k \in 1..Len(DigitChars) : DigitChars[k] = c)
    ELSE IF c = "." THEN 46
    ELSE IF c = "sup2" THEN 178
    ELSE 96 + (CHOOSE k \in 1..Len(LowerChars) : LowerChars[k] = c)

\* str.isdigit(): every character is a digit and there is at least one.
IsDigit(name) ==
    /\ Len(name) > 0
    /\ \A k \in 1..Len(name) : IsAsciiDigit(name[k]) \/ name[k] = "sup2"

\* int(name) succeeds: only the decimal digits convert.
IntParses(name) == Len(name) > 0 /\ \A k \in 1..Len(name) : IsAsciiDigit(name[k])

RECURSIVE IntOf(_)
\* int(name), for a name int() accepts: leading zeros carry no value.
IntOf(name) ==
    IF name = <<>> THEN 0
    ELSE 10 * IntOf(SubSeq(name, 1, Len(name) - 1)) + (Ord(name[Len(name)]) - 48)

RECURSIVE LexLess(_, _)
\* a < b on Python strings.
LexLess(a, b) ==
    IF b = <<>> THEN FALSE
    ELSE IF a = <<>> THEN TRUE
    ELSE IF Ord(Head(a)) # Ord(Head(b)) THEN Ord(Head(a)) < Ord(Head(b))
    ELSE LexLess(Tail(a), Tail(b))

RECURSIVE InsertByInt(_, _)
\* x put into a list sorted by int, after the elements it does not precede.
InsertByInt(x, s) ==
    IF s = <<>> THEN <<x>>
    ELSE IF IntOf(x) < IntOf(Head(s)) THEN <<x>> \o s
    ELSE <<Head(s)>> \o InsertByInt(x, Tail(s))

RECURSIVE InsertLex(_, _)
InsertLex(x, s) ==
    IF s = <<>> THEN <<x>>
    ELSE IF LexLess(x, Head(s)) THEN <<x>> \o s
    ELSE <<Head(s)>> \o InsertLex(x, Tail(s))

RECURSIVE SortedLex(_)
\* sorted(names) with no key: ascending by code point.
SortedLex(names) ==
    IF names = <<>> THEN <<>>
    ELSE InsertLex(names[Len(names)], SortedLex(SubSeq(names, 1, Len(names) - 1)))

\* The listing order kept: what a missing sorted() would leave.
ListingOrder(names) == names

RECURSIVE SortedRegression(_)
\* sorted(os.listdir(src_reg_dir)).
SortedRegression(names) ==
    IF names = <<>> THEN <<>>
    ELSE InsertLex(names[Len(names)], SortedRegression(SubSeq(names, 1, Len(names) - 1)))

RECURSIVE SortedByInt(_)
\* sorted(names, key=int): ascending by value, stable.
SortedByInt(names) ==
    IF names = <<>> THEN <<>>
    ELSE InsertByInt(names[Len(names)], SortedByInt(SubSeq(names, 1, Len(names) - 1)))

---------------------------------------------------------------------------
\* File contents and text reading

Range(s) == {s[k] : k \in 1..Len(s)}

\* Decoding as text fails on a byte that is no UTF-8.
Decodes(bytes) == "xFF" \notin Range(bytes)

RECURSIVE Translate(_)
\* Universal newlines: "\r\n" and a lone "\r" are read as "\n".
Translate(s) ==
    IF s = <<>> THEN <<>>
    ELSE IF Head(s) = "CR"
         THEN <<"LF">> \o Translate(IF Len(s) >= 2 /\ s[2] = "LF"
                                     THEN SubSeq(s, 3, Len(s)) ELSE Tail(s))
         ELSE <<Head(s)>> \o Translate(Tail(s))

RECURSIVE SplitLines(_, _)
\* The lines of a text, each with its line end; a last line may have none.
SplitLines(s, cur) ==
    IF s = <<>> THEN (IF cur = <<>> THEN <<>> ELSE <<cur>>)
    ELSE IF Head(s) = "LF" THEN <<Append(cur, "LF")>> \o SplitLines(Tail(s), <<>>)
    ELSE SplitLines(Tail(s), Append(cur, Head(s)))

\* open(path, 'r').readlines() of a file that decodes.
ReadLines(bytes) == SplitLines(Translate(bytes), <<>>)

\* difflib.unified_diff(lines_ref, lines_new, fromfile, tofile, lineterm=''):
\* nothing for equal sequences; otherwise the two header lines and the hunks,
\* kept here as one element that carries both sequences.
UnifiedDiff(lines_ref, lines_new, d, rel_path) ==
    IF lines_ref = lines_new THEN <<>>
    ELSE << [kind |-> "---", case |-> d, path |-> rel_path, ref |-> <<>>, new |-> <<>>],
            [kind |-> "+++", case |-> d, path |-> rel_path, ref |-> <<>>, new |-> <<>>],
            [kind |-> "@@", case |-> d, path |-> rel_path,
             ref |-> lines_ref, new |-> lines_new] >>

---------------------------------------------------------------------------
\* Directories
\*   a directory listing: a sequence of [name, node] in os.listdir order
\*   a node: [kind |-> "dir" or "file", out |-> optional content of output.log,
\*            reg |-> optional listing of regression/, whose nodes are
\*                    [kind |-> "dir" or "file", data |-> the file's bytes]]

OutputLog == <<"o", "u", "t", "p", "u", "t", ".", "l", "o", "g">>

NamesOf(listing) == [k \in 1..Len(listing) |-> listing[k].name]

\* os.path.exists(os.path.join(dir, name))
Exists(listing, name) == \E k \in 1..Len(listing) : listing[k].name = name

NodeOf(listing, name) ==
    listing[CHOOSE k \in 1..Len(listing) : listing[k].name = name].node

Without(listing, name) == SelectSeq(listing, LAMBDA e : e.name # name)

With(listing, name, node) == Append(listing, [name |-> name, node |-> node])

Replaced(listing, name, node) ==
    [k \in 1..Len(listing) |->
        IF listing[k].name = name THEN [name |-> name, node |-> node] ELSE listing[k]]

\* A relative path of an artifact: output.log, or regression/<f>.
RootPath(name) == [dir |-> "", name |-> name]
RegPath(name) == [dir |-> "regression", name |-> name]

\* os.path.exists(os.path.join(case_dir, rel_path))
HasPath(node, rel) ==
    IF rel.dir = "" THEN rel.name = OutputLog /\ node.out # <<>>
    ELSE node.reg # <<>> /\ Exists(node.reg[1], rel.name)

\* What lies at rel_path in a case directory: [kind, data].
AtPath(node, rel) ==
    IF rel.dir = "" THEN [kind |-> "file", data |-> node.out[1]]
    ELSE NodeOf(node.reg[1], rel.name)

\* files_to_check: output.log if the source has it, then regression/<f> for
\* the entries of the source's regression directory, sorted.
FilesToCheck(src) ==
    (IF src.out # <<>> THEN <<RootPath(OutputLog)>> ELSE <<>>)
    \o (IF src.reg # <<>>
        THEN LET names == SortedRegression(NamesOf(src.reg[1]))
             IN  [k \in 1..Len(names) |-> RegPath(names[k])]
        ELSE <<>>)

RECURSIVE CompareFiles(_, _, _, _, _)
\* The loop over files_to_check: acc is [missing, diffs, err]; an exception
\* raised by open() or readlines() ends the loop.
CompareFiles(files, src, dest, d, acc) ==
    IF files = <<>> \/ acc.err # "" THEN acc
    ELSE LET rel == Head(files)
             rest == Tail(files)
         IN  IF ~HasPath(dest, rel)
             THEN CompareFiles(rest, src, dest, d,
                               [acc EXCEPT !.missing = Append(@, rel)])
             ELSE LET f1 == AtPath(src, rel)
                      f2 == AtPath(dest, rel)
                  IN  IF f1.kind = "dir" \/ f2.kind = "dir"
                      THEN [acc EXCEPT !.err = "IsADirectoryError"]
                      ELSE IF ~Decodes(f1.data) \/ ~Decodes(f2.data)
                      THEN [acc EXCEPT !.err = "UnicodeDecodeError"]
                      ELSE CompareFiles(rest, src, dest, d,
                               [acc EXCEPT !.diffs = @ \o
                                   UnifiedDiff(ReadLines(f1.data), ReadLines(f2.data),
                                               d, rel)])

\* A harness that passes a case with nothing to compare.
Verdict_NoSkip(files_to_check, missing_files, all_diffs) ==
    IF missing_files = <<>> /\ all_diffs = <<>> THEN "PASS" ELSE "FAIL"

\* A harness that forgets the missing files when it decides.
Verdict_IgnoreMissing(files_to_check, missing_files, all_diffs) ==
    IF files_to_check = <<>> THEN "SKIP"
    ELSE IF all_diffs = <<>> THEN "PASS"
    ELSE "FAIL"

\* The outcome of a case whose binary exited zero.
Verdict(files_to_check, missing_files, all_diffs) ==
    IF files_to_check = <<>> THEN "SKIP"
    ELSE IF missing_files = <<>> /\ all_diffs = <<>> THEN "PASS"
    ELSE "FAIL"

---------------------------------------------------------------------------
\* The two report files.  write() appends to the file object's buffer; the
\* bytes reach the disk when the file is closed (the reports of the bounded
\* runs modelled here stay far below the buffer's size, so it never spills).

\* open(path, 'w'): the file is created or truncated.
OpenWrite(f) == [buf |-> <<>>, disk |-> <<>>]

Write(f, x) == [f EXCEPT !.buf = Append(@, x)]

\* Leaving the `with` block, normally or by an exception, closes the file.
Close(f) == [buf |-> <<>>, disk |-> f.disk \o f.buf]

\* The process is killed: what was only in the buffer is lost.
Lost(f) == [buf |-> <<>>, disk |-> f.disk]

Line(d, outcome) == [id |-> d, outcome |-> outcome]

Block(d, missing_files, all_diffs) ==
    [case |-> d, missing |-> missing_files, diffs |-> all_diffs]

---------------------------------------------------------------------------
\* The subject binary: whether it can be launched, what it does to the files
\* of its working directory and its exit code.

ALog == <<"a", ".", "l", "o", "g">>
BLog == <<"b", ".", "l", "o", "g">>
Sub == <<"s", "u", "b">>

Ok == <<"o", "k", "LF">>
OkCrLf == <<"o", "k", "CR", "LF">>
Fail == <<"f", "a", "i", "l", "LF">>
Bad == <<"xFF">>

Ops == {"noop", "rm_output", "rm_reg_a", "rm_regression", "write_ok",
        "write_fail", "regen_fail", "rm_output_regen_fail"}

\* Every regular file of regression/ rewritten with `bytes`.
Regenerated(reg, bytes) ==
    IF reg = <<>> THEN reg
    ELSE << [k \in 1..Len(reg[1]) |->
               IF reg[1][k].node.kind = "file"
               THEN [reg[1][k] EXCEPT !.node.data = bytes]
               ELSE reg[1][k]] >>

Apply(op, node) ==
    CASE op = "noop" -> node
      [] op = "rm_output" -> [node EXCEPT !.out = <<>>]
      [] op = "rm_reg_a" ->
            IF node.reg = <<>> THEN node
            ELSE [node EXCEPT !.reg = <<Without(node.reg[1], ALog)>>]
      [] op = "rm_regression" -> [node EXCEPT !.reg = <<>>]
      [] op = "write_ok" -> [node EXCEPT !.out = <<Ok>>]
      [] op = "write_fail" -> [node EXCEPT !.out = <<Fail>>]
      [] op = "regen_fail" ->
            [node EXCEPT !.out = IF @ = <<>> THEN @ ELSE <<Fail>>,
                         !.reg = Regenerated(@, Fail)]
      [] op = "rm_output_regen_fail" ->
            [node EXCEPT !.out = <<>>, !.reg = Regenerated(@, Fail)]

\* subprocess.run(..., check=False): a non-zero exit goes unnoticed.
Crashed_Unchecked(b) == FALSE

\* subprocess.run(..., check=True) raises CalledProcessError.
Crashed(b) == b.exit # 0

---------------------------------------------------------------------------
\* Initial states: the environment is set, the binary was found, the source
\* directory exists and the results root is either a directory of its own or
\* the source directory itself.

Dir(out, reg) == [kind |-> "dir", out |-> out, reg |-> reg]
RegularFile == [kind |-> "file", out |-> <<>>, reg |-> <<>>]
RegFile(name, bytes) == [name |-> name, node |-> [kind |-> "file", data |-> bytes]]
RegDir(name) == [name |-> name, node |-> [kind |-> "dir", data |-> <<>>]]

\* The case directories of the comparison runs.
Fixtures ==
    { Dir(<<>>, <<>>),
      Dir(<<Ok>>, <<>>),
      Dir(<<OkCrLf>>, <<>>),
      Dir(<<Ok>>, << <<RegFile(BLog, Ok), RegFile(ALog, Ok)>> >>),
      Dir(<<>>, << <<>> >>),
      Dir(<<Bad>>, <<>>),
      Dir(<<>>, << <<RegDir(Sub)>> >>),
      RegularFile }

CompareNames == { <<"2">>, <<"1", "0">>, <<"x">> }

CompareBinaries ==
    {[launch |-> TRUE, exit |-> e, op |-> o] : e \in {0, 1}, o \in Ops}
    \cup {[launch |-> FALSE, exit |-> 1, op |-> "noop"]}

\* The discovery runs: more names, fewer kinds of case.
DiscoveryFixtures == { Dir(<<>>, <<>>), Dir(<<Ok>>, <<>>) }

DiscoveryNames ==
    { <<"1">>, <<"2">>, <<"1", "0">>, <<"0", "1">>, <<"a">>, <<"1", "a">>, <<"sup2">> }

DiscoveryBinaries ==
    { [launch |-> TRUE, exit |-> 0, op |-> "noop"],
      [launch |-> TRUE, exit |-> 1, op |-> "noop"],
      [launch |-> TRUE, exit |-> 0, op |-> "rm_output"],
      [launch |-> FALSE, exit |-> 1, op |-> "noop"] }

EntriesOf(names, fixtures) ==
    {[name |-> n, node |-> t] : n \in {m \in names : IsDigit(m)}, t \in fixtures}
    \cup {[name |-> n, node |-> Dir(<<>>, <<>>)] : n \in {m \in names : ~IsDigit(m)}}

\* The listings of at most MaxEntries entries with distinct names, in every order.
Listings(entries) ==
    {s \in UNION {[1..k -> entries] : k \in 0..MaxEntries} :
        \A a, b \in 1..Len(s) : a # b => s[a].name # s[b].name}

InitWith(listings, binaries) ==
    /\ regression_path = "source"
    /\ results_path \in {"results", "source"}
    /\ \E l \in listings : fs = [source |-> l, results |-> <<>>] /\ src0 = l
    /\ binary \in binaries
    /\ pc = "open"
    /\ err = ""
    /\ dirs = <<>>
    /\ i = 0
    /\ res_file = [buf |-> <<>>, disk |-> <<>>]
    /\ diff_file = [buf |-> <<>>, disk |-> <<>>]
    /\ run = 1
    /\ prev = <<>>

Init ==
    \/ InitWith(Listings(EntriesOf(CompareNames, Fixtures)), CompareBinaries)
    \/ InitWith(Listings(EntriesOf(DiscoveryNames, DiscoveryFixtures)), DiscoveryBinaries)

---------------------------------------------------------------------------
\* main()

\* An uncaught exception leaves the `with` block: both files are closed.
Abort(e) ==
    /\ pc' = "aborted"
    /\ err' = e
    /\ res_file' = Close(res_file)
    /\ diff_file' = Close(diff_file)

\* `continue`, or the end of the loop body: the next case, or the end of the loop.
Advance ==
    /\ i' = i + 1
    /\ pc' = IF i + 1 < Len(dirs) THEN "stage" ELSE "close"

\* A harness that leaves an existing working directory in place.
Rmtree_Skipped(listing, d) == listing

\* shutil.rmtree(dest_dir)
Rmtree(listing, d) == Without(listing, d)

\* Both report files are opened for writing.
Open ==
    /\ pc = "open"
    /\ res_file' = OpenWrite(res_file)
    /\ diff_file' = OpenWrite(diff_file)
    /\ pc' = "discover"
    /\ UNCHANGED <<fs, regression_path, results_path, binary, err, dirs, i,
                   run, prev, src0>>

\* The numeric entries of the source directory, sorted by value.
Discover ==
    /\ pc = "discover"
    /\ LET found == SelectSeq(NamesOf(fs[regression_path]), IsDigit)
       IN  IF \E k \in 1..Len(found) : ~IntParses(found[k])
           THEN Abort("ValueError") /\ UNCHANGED dirs
           ELSE IF found = <<>>
           THEN /\ pc' = "done"
                /\ res_file' = Close(res_file)
                /\ diff_file' = Close(diff_file)
                /\ UNCHANGED <<err, dirs>>
           ELSE /\ dirs' = SortedByInt(found)
                /\ pc' = "stage"
                /\ UNCHANGED <<err, res_file, diff_file>>
    /\ i' = 0
    /\ UNCHANGED <<fs, regression_path, results_path, binary, run, prev, src0>>

\* An existing working directory is removed and the source directory copied.
Stage ==
    /\ pc = "stage"
    /\ LET d == dirs[i + 1]
       IN  IF Exists(fs[results_path], d) /\ NodeOf(fs[results_path], d).kind = "file"
           THEN Abort("NotADirectoryError") /\ UNCHANGED fs
           ELSE LET fs1 == IF Exists(fs[results_path], d)
                           THEN [fs EXCEPT ![results_path] = Rmtree(@, d)]
                           ELSE fs
                IN  IF ~Exists(fs1[regression_path], d)
                    THEN Abort("FileNotFoundError") /\ fs' = fs1
                    ELSE IF NodeOf(fs1[regression_path], d).kind = "file"
                    THEN Abort("NotADirectoryError") /\ fs' = fs1
                    ELSE IF Exists(fs1[results_path], d)
                    THEN Abort("FileExistsError") /\ fs' = fs1
                    ELSE /\ fs' = [fs1 EXCEPT ![results_path] =
                                      With(@, d, NodeOf(fs1[regression_path], d))]
                         /\ pc' = "run"
                         /\ UNCHANGED <<err, res_file, diff_file>>
    /\ UNCHANGED <<regression_path, results_path, binary, dirs, i, run, prev, src0>>

\* The binary runs in the working directory; a failure to launch it and a
\* non-zero exit each write the case's line and go on to the next case.
Execute ==
    /\ pc = "run"
    /\ LET d == dirs[i + 1]
       IN  IF ~binary.launch
           THEN /\ res_file' = Write(res_file, Line(d, "ERROR"))
                /\ Advance
                /\ UNCHANGED fs
           ELSE /\ fs' = [fs EXCEPT ![results_path] =
                             Replaced(@, d, Apply(binary.op, NodeOf(@, d)))]
                /\ IF Crashed(binary)
                   THEN /\ res_file' = Write(res_file, Line(d, "FAIL (Crash)"))
                        /\ Advance
                   ELSE /\ pc' = "compare"
                        /\ UNCHANGED <<res_file, i>>
    /\ UNCHANGED <<regression_path, results_path, binary, err, dirs, diff_file,
                   run, prev, src0>>

\* The artifacts are compared and the outcome written.
Compare ==
    /\ pc = "compare"
    /\ LET d == dirs[i + 1]
           src_dir == NodeOf(fs[regression_path], d)
           dest_dir == NodeOf(fs[results_path], d)
           files_to_check == FilesToCheck(src_dir)
           r == CompareFiles(files_to_check, src_dir, dest_dir, d,
                             [missing |-> <<>>, diffs |-> <<>>, err |-> ""])
           outcome == Verdict(files_to_check, r.missing, r.diffs)
       IN  IF r.err # ""
           THEN Abort(r.err) /\ UNCHANGED i
           ELSE /\ res_file' = Write(res_file, Line(d, outcome))
                /\ diff_file' = IF outcome = "FAIL"
                                THEN Write(diff_file, Block(d, r.missing, r.diffs))
                                ELSE diff_file
                /\ Advance
                /\ UNCHANGED err
    /\ UNCHANGED <<fs, regression_path, results_path, binary, dirs, run, prev, src0>>

\* The loop is over: the `with` block closes both files and main() returns.
Finish ==
    /\ pc = "close"
    /\ res_file' = Close(res_file)
    /\ diff_file' = Close(diff_file)
    /\ pc' = "done"
    /\ UNCHANGED <<fs, regression_path, results_path, binary, err, dirs, i,
                   run, prev, src0>>

\* The process is killed from outside while it runs.
Kill ==
    /\ pc \in {"discover", "stage", "run", "compare", "close"}
    /\ pc' = "killed"
    /\ res_file' = Lost(res_file)
    /\ diff_file' = Lost(diff_file)
    /\ UNCHANGED <<fs, regression_path, results_path, binary, err, dirs, i,
                   run, prev, src0>>

\* The harness is run again with the same binary and the same paths, once the
\* run before it has ended by itself.
NextRun ==
    /\ pc \in {"done", "aborted"}
    /\ run < MaxRuns
    /\ run' = run + 1
    /\ prev' = res_file.disk
    /\ pc' = "open"
    /\ err' = ""
    /\ dirs' = <<>>
    /\ i' = 0
    /\ UNCHANGED <<fs, regression_path, results_path, binary, res_file,
                   diff_file, src0>>

Next ==
    \/ Open
    \/ Discover
    \/ Stage
    \/ Execute
    \/ Compare
    \/ Finish
    \/ Kill
    \/ NextRun

Spec == Init /\ [][Next]_vars

---------------------------------------------------------------------------
\* What the claims speak of

\* What the harness has written to a file since it opened it.
Written(f) == f.disk \o f.buf

Report == Written(res_file)
DiffLog == Written(diff_file)

\* main() is in or past its loop, and was not killed.
InLoop == pc \in {"stage", "run", "compare", "close", "done", "aborted"}

SourceNode(d) == NodeOf(fs[regression_path], d)
WorkNode(d) == NodeOf(fs[results_path], d)

\* The reference artifacts of a case: output.log and the entries of regression/.
RefSet(src) ==
    (IF src.out # <<>> THEN {RootPath(OutputLog)} ELSE {})
    \cup (IF src.reg # <<>> THEN {RegPath(n) : n \in Range(NamesOf(src.reg[1]))} ELSE {})

\* A reference artifact of case d has no counterpart in the working directory.
Missing(d) == \E r \in RefSet(SourceNode(d)) : ~HasPath(WorkNode(d), r)

\* An artifact of the working directory reads as other lines than the reference.
DiffersLines(d) ==
    \E r \in RefSet(SourceNode(d)) :
        /\ HasPath(WorkNode(d), r)
        /\ ReadLines(AtPath(WorkNode(d), r).data) # ReadLines(AtPath(SourceNode(d), r).data)

ExitsZero == binary.launch /\ binary.exit = 0
ExitsNonZero == binary.launch /\ binary.exit # 0

\* Artifact a comes before artifact b in enumeration order: output.log first,
\* then the entries of regression/ in ascending order of their names.
Before(a, b) ==
    \/ a.dir = "" /\ b.dir = "regression"
    \/ a.dir = "regression" /\ b.dir = "regression" /\ LexLess(a.name, b.name)

Ascending(paths) == \A a, b \in 1..Len(paths) : a < b => Before(paths[a], paths[b])

\* The artifacts a block's diff text speaks of, in the order of their headers.
DiffPaths(block) ==
    LET heads == SelectSeq(block.diffs, LAMBDA l : l.kind = "---")
    IN  [k \in 1..Len(heads) |-> heads[k].path]

Two == <<"2">>
Ten == <<"1", "0">>

---------------------------------------------------------------------------
\* C1: when main() returns, test_result.txt holds exactly one line for every
\* entry of the source directory whose name is all digits, and the lines are in
\* ascending order of the numeric value of the case ID, whatever the order in
\* which the directory was listed.
C1_OneLinePerCaseAscending ==
    pc = "done" =>
        LET lines == res_file.disk
            discovered == {n \in Range(NamesOf(fs[regression_path])) : IsDigit(n)}
        IN  /\ Len(lines) = Cardinality(discovered)
            /\ {lines[k].id : k \in 1..Len(lines)} = discovered
            /\ \A a, b \in 1..Len(lines) :
                   a < b => IntOf(lines[a].id) <= IntOf(lines[b].id)

\* The directory lists "10" before "2" and the report has "2" before "10".
C1_Witness ==
    /\ pc = "done"
    /\ NamesOf(fs[regression_path]) = <<Ten, Two>>
    /\ Len(res_file.disk) = 2
    /\ res_file.disk[1].id = Two
    /\ res_file.disk[2].id = Ten

\* C2 as stated: a case with neither output.log nor regression/ gets SKIP,
\* never PASS or FAIL, whatever the binary does when it runs for that case.
C2_NoReferenceAlwaysSkip ==
    (InLoop /\ binary.launch) =>
        \A k \in 1..i :
            (SourceNode(dirs[k]).out = <<>> /\ SourceNode(dirs[k]).reg = <<>>)
                => Len(Report) >= k /\ Report[k] = Line(dirs[k], "SKIP")

\* C2 amended: a case with neither output.log nor regression/ gets SKIP when
\* its binary exits zero, whatever the binary did to the working directory; it
\* gets FAIL (Crash) when the binary exits non-zero and ERROR when the binary
\* cannot be launched, since the references are looked for only after the run.
C2_NoReferenceSkipAfterExitZero ==
    InLoop =>
        \A k \in 1..i :
            (SourceNode(dirs[k]).out = <<>> /\ SourceNode(dirs[k]).reg = <<>>)
                => /\ Len(Report) >= k
                   /\ Report[k] = Line(dirs[k],
                                       IF ExitsZero THEN "SKIP"
                                       ELSE IF ExitsNonZero THEN "FAIL (Crash)"
                                       ELSE "ERROR")

\* The binary wrote an output.log into a case that has no reference: SKIP.
C2_Witness ==
    /\ InLoop
    /\ ExitsZero
    /\ binary.op = "write_fail"
    /\ \E k \in 1..i :
          /\ SourceNode(dirs[k]).out = <<>>
          /\ SourceNode(dirs[k]).reg = <<>>
          /\ WorkNode(dirs[k]).out = <<Fail>>
          /\ Report[k] = Line(dirs[k], "SKIP")

\* C3: a case whose binary exits non-zero gets the line `<id>: FAIL (Crash)`,
\* its artifacts are not compared, nothing is written to the diff log for it
\* even when it has reference artifacts, and the loop goes on to the next case.
C3_CrashLineAndNoDiff ==
    (InLoop /\ ExitsNonZero) =>
        /\ pc # "compare"
        /\ DiffLog = <<>>
        /\ Len(Report) = i
        /\ \A k \in 1..i : Report[k] = Line(dirs[k], "FAIL (Crash)")
        /\ pc = "done" => i = Len(dirs)

\* Two crashing cases, the first with reference artifacts, both reported.
C3_Witness ==
    /\ pc = "done"
    /\ ExitsNonZero
    /\ i = 2
    /\ RefSet(SourceNode(dirs[1])) # {}
    /\ Report = <<Line(dirs[1], "FAIL (Crash)"), Line(dirs[2], "FAIL (Crash)")>>

\* C4 as stated, with FAIL read as any FAIL outcome (FAIL and FAIL (Crash)).
C4_AnyFailIffMissingOrDiffers ==
    InLoop =>
        \A k \in 1..i :
            /\ Len(Report) >= k
            /\ Report[k].outcome \in {"FAIL", "FAIL (Crash)"}
                   <=> (Missing(dirs[k]) \/ DiffersLines(dirs[k]))
            /\ Report[k].outcome = "PASS"
                   => (~Missing(dirs[k]) /\ ~DiffersLines(dirs[k]))

\* C4 as stated, with FAIL read as the outcome `FAIL` alone.
C4_PlainFailIffMissingOrDiffers ==
    InLoop =>
        \A k \in 1..i :
            /\ Len(Report) >= k
            /\ Report[k].outcome = "FAIL"
                   <=> (Missing(dirs[k]) \/ DiffersLines(dirs[k]))
            /\ Report[k].outcome = "PASS"
                   => (~Missing(dirs[k]) /\ ~DiffersLines(dirs[k]))

C5_CopyCompleteAndSourceUntouched ==
    /\ fs[regression_path] = src0
    /\ pc = "run" => WorkNode(dirs[i + 1]) = SourceNode(dirs[i + 1])

\* C6: whenever the run stops abnormally, killed or aborted by an exception,
\* test_result.txt on disk holds the line of every case already processed and
\* test_diffs.log on disk the block of every failing one.
C6_FlushedAfterEachCase ==
    pc \in {"killed", "aborted"} =>
        /\ Len(res_file.disk) = i
        /\ \A k \in 1..i : res_file.disk[k].id = dirs[k]
        /\ LET failed == SelectSeq(res_file.disk, LAMBDA l : l.outcome = "FAIL")
           IN  /\ Len(diff_file.disk) = Len(failed)
               /\ \A k \in 1..Len(failed) : diff_file.disk[k].case = failed[k].id

\* C7: a second run with the same binary, source directory and results root,
\* started with the working directories and report files of the first in
\* place, leaves the same test_result.txt as the first.
C7_SecondRunSameReport ==
    (run >= 2 /\ pc \in {"done", "aborted"}) => res_file.disk = prev

\* The second run ended with two lines, one a FAIL, over a working directory
\* the first run's binary had changed.
C7_Witness ==
    /\ run = 2
    /\ pc = "done"
    /\ Len(prev) = 2
    /\ res_file.disk = prev
    /\ \E k \in 1..2 : prev[k].outcome = "FAIL"

\* What open() and readlines() raise on an artifact.
ArtifactErrors == {"IsADirectoryError", "UnicodeDecodeError"}

\* C8: no case-level error aborts the run, an artifact that cannot be read as
\* text included: each is recorded as the case's line and the next case is
\* processed.
C8_CaseErrorsNeverAbort ==
    /\ pc = "aborted" => err \notin ArtifactErrors
    /\ InLoop => Len(Report) = i

\* C9: the diff log holds one block for each case whose line is `<id>: FAIL`
\* and for no other, in discovery order; inside a block the missing files and
\* the diffs each follow enumeration order (output.log, then the entries of
\* regression/ in ascending order), the missing files being the reference
\* artifacts the working directory lacks and the diffs those of the artifacts
\* that read differently.
C9_BlocksForFailsInOrder ==
    pc # "open" =>
        LET failed == SelectSeq(Report, LAMBDA l : l.outcome = "FAIL")
        IN  /\ Len(DiffLog) = Len(failed)
            /\ \A k \in 1..Len(DiffLog) :
                  LET b == DiffLog[k]
                  IN  /\ b.case = failed[k].id
                      /\ Ascending(b.missing)
                      /\ Ascending(DiffPaths(b))
                      /\ Len(b.diffs) = 3 * Len(DiffPaths(b))
                      /\ Range(b.missing) =
                            {r \in RefSet(SourceNode(b.case)) : ~HasPath(WorkNode(b.case), r)}
                      /\ Range(DiffPaths(b)) =
                            {r \in RefSet(SourceNode(b.case)) :
                                /\ HasPath(WorkNode(b.case), r)
                                /\ ReadLines(AtPath(WorkNode(b.case), r).data)
                                      # ReadLines(AtPath(SourceNode(b.case), r).data)}
            /\ \A a, b \in 1..Len(DiffLog) :
                  a < b => \E x, y \in 1..Len(dirs) :
                              x < y /\ dirs[x] = DiffLog[a].case /\ dirs[y] = DiffLog[b].case

\* Two failing cases, listed "10" before "2"; the block of "2" comes first and
\* names output.log as missing and, in this order, the diffs of regression/a.log
\* and regression/b.log, which the directory lists b.log first.
C9_Witness ==
    /\ pc = "done"
    /\ NamesOf(src0) = <<Ten, Two>>
    /\ Len(DiffLog) = 2
    /\ DiffLog[1].case = Two
    /\ DiffLog[2].case = Ten
    /\ SourceNode(Two).reg # <<>>
    /\ NamesOf(SourceNode(Two).reg[1]) = <<BLog, ALog>>
    /\ DiffLog[1].missing = <<RootPath(OutputLog)>>
    /\ DiffPaths(DiffLog[1]) = <<RegPath(ALog), RegPath(BLog)>>

\* The cases main() is through with: those the loop finished and the one an
\* exception of the comparison ended.
Ended == 1..i \cup (IF pc = "aborted" /\ err \in ArtifactErrors THEN {i + 1} ELSE {})

\* C10: a case with a reference artifact whose binary exits zero and touches
\* no file gets PASS, always; and a FAIL for a missing file occurs only when
\* the binary deleted a staged reference artifact.
C10_UntouchedCasePasses ==
    InLoop =>
        /\ (ExitsZero /\ binary.op = "noop") =>
              \A k \in Ended :
                  RefSet(SourceNode(dirs[k])) # {}
                      => Len(Report) >= k /\ Report[k] = Line(dirs[k], "PASS")
        /\ \A k \in 1..i :
              (Len(Report) >= k /\ Report[k].outcome = "FAIL" /\ Missing(dirs[k]))
                  => binary.op \in {"rm_output", "rm_reg_a", "rm_regression",
                                    "rm_output_regen_fail"}
====
